---------------------------- MODULE Spec2Model ----------------------------
(* The LLM gateway of llm_manager.py and app.py as a state machine:         *)
(* the provider registry built from os.environ, the per-vendor round-robin  *)
(* credential rotation, the dispatcher LLMManager.request and the /generate *)
(* endpoint, with one thread of control per HTTP request.                   *)
EXTENDS Integers, Sequences, FiniteSets, TLC

VARIABLES
    environ,        \* os.environ: variable name -> value
    rate_limit,     \* LLMManager.rate_limit, in whole seconds
    providers,      \* LLMManager.providers: vendor name -> handler or None
    boot,           \* the _load_provider_keys calls __init__ has still to make
    genai_api_key,  \* the api key held by the process-global genai configuration
    req,            \* per request: position in the code, locals, result
    issued          \* per vendor: the key indices get_api_key read, in order

vars == <<environ, rate_limit, providers, boot, genai_api_key, req, issued>>

-----------------------------------------------------------------------------
(* Bounds of the model *)

\* number of HTTP requests that arrive
MaxRequests == 3
\* number of those that may be in progress at the same time
MaxThreads == 2
\* largest configured rate limit, in seconds
MaxDelay == 1
\* largest numbered suffix an environment variable of the loader runs carries
MaxIndex == 4
\* largest number of variables set in an environment of the loader runs
MaxEnvVars == 3

-----------------------------------------------------------------------------
(* Vendors and their environment prefixes: LLMManager.__init__ *)

LoadOrder ==
    << <<"mistral", "MISTRAL_KEY">>,
       <<"aistudio", "AISTUDIO_KEY">>,
       <<"openrouter", "OPENROUTER_KEY">>,
       <<"huggingface", "HF_KEY">>,
       <<"gemini", "GEMINI_API_KEY">> >>

Vendors == {LoadOrder[i][1] : i \in 1..Len(LoadOrder)}

Prefixes == {LoadOrder[i][2] : i \in 1..Len(LoadOrder)}

\* the value Python's None is modelled by, where a handler is expected
None == [type |-> "None"]

\* the value Python's None is modelled by, where a string is expected
NoKey == "<None>"

\* Python truthiness of an optional string: None and "" are falsy
Falsy(s) == s = NoKey \/ s = ""

-----------------------------------------------------------------------------
(* _load_provider_keys *)

\* f"{env_prefix}{index}"
EnvVar(env_prefix, index) == env_prefix \o ToString(index)

\* the while loop: probe prefix+index upwards, stop at the first missing one
RECURSIVE ProbeNumbered(_, _, _, _)
ProbeNumbered(env, env_prefix, index, keys) ==
    IF EnvVar(env_prefix, index) \in DOMAIN env
    THEN ProbeNumbered(env, env_prefix, index + 1,
                       Append(keys, env[EnvVar(env_prefix, index)]))
    ELSE keys

\* the single-key variant a plausible slip produces: the bare variable is
\* always taken, also when numbered ones exist
DiscoverKeysBareFirst(env, env_prefix) ==
    LET keys == ProbeNumbered(env, env_prefix, 1, <<>>)
    IN  IF env_prefix \in DOMAIN env
        THEN <<env[env_prefix]>> \o keys
        ELSE keys

\* the credential list _load_provider_keys builds
DiscoverKeys(env, env_prefix) ==
    LET keys == ProbeNumbered(env, env_prefix, 1, <<>>)
    IN  IF keys = <<>> /\ env_prefix \in DOMAIN env
        THEN <<env[env_prefix]>>
        ELSE keys

\* the handler class chosen for a vendor name
HandlerClass(provider_name) ==
    CASE provider_name = "mistral" -> "MistralProvider"
      [] provider_name = "aistudio" -> "AIStudioProvider"
      [] provider_name = "openrouter" -> "OpenRouterProvider"
      [] provider_name = "huggingface" -> "HuggingFaceProvider"
      [] provider_name = "gemini" -> "GeminiProvider"

\* LLMProviderBase.__init__
NewHandler(provider_name, api_keys) ==
    [type |-> HandlerClass(provider_name),
     provider_name |-> provider_name,
     api_keys |-> api_keys,
     key_index |-> 0]

\* the registry entry _load_provider_keys records
RegistryEntry(env, provider_name, env_prefix) ==
    LET keys == DiscoverKeys(env, env_prefix)
    IN  IF keys # <<>> THEN NewHandler(provider_name, keys) ELSE None

\* one call of _load_provider_keys, in the order of __init__
load_provider_keys ==
    /\ boot # <<>>
    /\ LET provider_name == Head(boot)[1]
           env_prefix == Head(boot)[2]
       IN  providers' = [v \in DOMAIN providers \cup {provider_name} |->
                            IF v = provider_name
                            THEN RegistryEntry(environ, provider_name, env_prefix)
                            ELSE providers[v]]
    /\ boot' = Tail(boot)
    /\ UNCHANGED <<environ, rate_limit, genai_api_key, req, issued>>

-----------------------------------------------------------------------------
(* Environments *)

\* environment variables prefix1 .. prefixN holding values[1] .. values[N]
Numbered(env_prefix, values) ==
    [n \in {EnvVar(env_prefix, i) : i \in 1..Len(values)} |->
        values[CHOOSE i \in 1..Len(values) : EnvVar(env_prefix, i) = n]]

\* the deployments the request runs start from
DeployEnvs ==
    { Numbered("MISTRAL_KEY", <<"sk-m1", "sk-m2">>)
        @@ Numbered("GEMINI_API_KEY", <<"sk-g1", "sk-g2">>)
        @@ ("HF_KEY" :> "sk-h")
        @@ ("OPENROUTER_KEY" :> "sk-o"),
      Numbered("MISTRAL_KEY", <<"", "sk-m2">>)
        @@ ("GEMINI_API_KEY" :> "sk-g")
        @@ Numbered("AISTUDIO_KEY", <<"sk-a1">>),
      Numbered("HF_KEY", <<"sk-h1", "sk-h2", "sk-h3">>)
        @@ ("MISTRAL_KEY" :> "sk-m0")
        @@ Numbered("MISTRAL_KEY", <<"sk-m1">>) }

\* the names a loader run may find set: the bare prefix and prefix1..MaxIndex
LoadNames ==
    Prefixes \cup {EnvVar(p, i) : p \in Prefixes, i \in 1..MaxIndex}

RECURSIVE NameSets(_)
NameSets(k) ==
    IF k = 0 THEN {{}}
    ELSE LET smaller == NameSets(k - 1)
         IN  smaller \cup {S \cup {n} : S \in smaller, n \in LoadNames}

\* every environment of at most MaxEnvVars of those names; each variable
\* holds a secret of its own
LoadEnvs == {[n \in S |-> "sk-" \o n] : S \in NameSets(MaxEnvVars)}

-----------------------------------------------------------------------------
(* Requests *)

Requests == 1..MaxRequests

\* dict.get(key, "")
Get(data, key) == IF key \in DOMAIN data THEN data[key] ELSE ""

\* the JSON bodies a client posts: any of the three fields may be missing or ""
ProviderNames == Vendors \cup {"unknown-vendor"}

FieldValues(key) ==
    CASE key = "prompt" -> {"", "hi"}
      [] key = "provider" -> {""} \cup ProviderNames
      [] key = "model" -> {"", "m1"}

Bodies ==
    UNION {{d \in [D -> {"", "hi", "m1"} \cup ProviderNames] :
               \A k \in D : d[k] \in FieldValues(k)} :
              D \in SUBSET {"prompt", "provider", "model"}}

\* the bodies whose three fields are all set
FullBodies == {d \in Bodies : \A k \in {"prompt", "provider", "model"} : Get(d, k) # ""}

NoResult == [pending |-> TRUE]

IsError(res) == DOMAIN res = {"error"}

IsSuccess(res) == DOMAIN res = {"provider", "response"}

IdleRequest ==
    [pc |-> "idle", via |-> "", data |-> <<>>, provider |-> "", api_key |-> NoKey,
     tmp |-> 0, slept |-> 0, wire |-> <<>>, advances |-> 0,
     result |-> NoResult, status |-> 0]

InitWith(envs) ==
    /\ environ \in envs
    /\ rate_limit \in 0..MaxDelay
    /\ providers = <<>>
    /\ boot = LoadOrder
    /\ genai_api_key = NoKey
    /\ req = [r \in Requests |-> IdleRequest]
    /\ issued = [v \in Vendors |-> <<>>]

-----------------------------------------------------------------------------
(* app.py: generate *)

\* the vendors /generate lets through
AllowedProviders == {"mistral", "huggingface", "gemini"}

\* the 400 answer of generate, or NoResult when the body passes validation
ValidationError(data) ==
    IF data = <<>>
    THEN [error |-> <<"No JSON body provided">>]
    ELSE IF Get(data, "prompt") = "" \/ Get(data, "provider") = ""
            \/ Get(data, "model") = ""
    THEN [error |-> <<"Prompt, provider, and model are required">>]
    ELSE IF Get(data, "provider") \notin AllowedProviders
    THEN [error |-> <<"Invalid provider">>]
    ELSE NoResult

\* request r arrives with body data: validation, then the dispatcher is called
generate(r, data) ==
    /\ boot = <<>>
    /\ req[r].pc = "idle"
    /\ \A q \in Requests : q < r => req[q].pc # "idle"
    /\ LET bad == ValidationError(data)
       IN  req' = [req EXCEPT ![r] =
                IF bad # NoResult
                THEN [@ EXCEPT !.pc = "done", !.via = "http", !.data = data,
                               !.result = bad, !.status = 400]
                ELSE [@ EXCEPT !.pc = "request", !.via = "http", !.data = data,
                               !.provider = Get(data, "provider")]]
    /\ UNCHANGED <<environ, rate_limit, providers, boot, genai_api_key, issued>>

\* return jsonify(result), 200
generate_return(r) ==
    /\ req[r].pc = "return"
    /\ req[r].via = "http"
    /\ req' = [req EXCEPT ![r].pc = "done", ![r].status = 200]
    /\ UNCHANGED <<environ, rate_limit, providers, boot, genai_api_key, issued>>

\* the response is sent and the request's locals are dropped
respond(r) ==
    /\ req[r].pc = "done"
    /\ req' = [req EXCEPT ![r] = [IdleRequest EXCEPT !.pc = "closed"]]
    /\ UNCHANGED <<environ, rate_limit, providers, boot, genai_api_key, issued>>

-----------------------------------------------------------------------------
(* LLMManager.request *)

\* library usage: request r is a direct call of LLMManager.request
library_call(r, provider) ==
    /\ boot = <<>>
    /\ req[r].pc = "idle"
    /\ \A q \in Requests : q < r => req[q].pc # "idle"
    /\ req' = [req EXCEPT ![r].pc = "request", ![r].via = "library",
                           ![r].provider = provider]
    /\ UNCHANGED <<environ, rate_limit, providers, boot, genai_api_key, issued>>

\* return result, to a library caller
library_return(r) ==
    /\ req[r].pc = "return"
    /\ req[r].via = "library"
    /\ req' = [req EXCEPT ![r].pc = "done"]
    /\ UNCHANGED <<environ, rate_limit, providers, boot, genai_api_key, issued>>

\* provider not in self.providers or not self.providers[provider]
NotConfigured(provider) ==
    provider \notin DOMAIN providers \/ providers[provider] = None

\* the generic message a slip would give: the vendor is not named
UnconfiguredErrorAnonymous(provider) ==
    [error |-> <<"Provider is not configured or has no API keys.">>]

\* f"Provider '{provider}' is not configured or has no API keys."
UnconfiguredError(provider) ==
    [error |-> <<"Provider '", provider, "' is not configured or has no API keys.">>]

\* the cooldown taken where the docstring puts it, after the request: the
\* handler is entered at once
requestNoWait(r) ==
    /\ req[r].pc = "request"
    /\ req' = [req EXCEPT ![r] =
            IF NotConfigured(req[r].provider)
            THEN [@ EXCEPT !.pc = "return",
                           !.result = UnconfiguredError(req[r].provider)]
            ELSE [@ EXCEPT !.pc = "get_api_key"]]
    /\ UNCHANGED <<environ, rate_limit, providers, boot, genai_api_key, issued>>

\* the registry check; a configured vendor goes on to time.sleep
request(r) ==
    /\ req[r].pc = "request"
    /\ req' = [req EXCEPT ![r] =
            IF NotConfigured(req[r].provider)
            THEN [@ EXCEPT !.pc = "return",
                           !.result = UnconfiguredError(req[r].provider)]
            ELSE [@ EXCEPT !.pc = "sleep"]]
    /\ UNCHANGED <<environ, rate_limit, providers, boot, genai_api_key, issued>>

\* one second of time.sleep(self.rate_limit) passes
sleep_tick(r) ==
    /\ req[r].pc = "sleep"
    /\ req[r].slept < rate_limit
    /\ req' = [req EXCEPT ![r].slept = @ + 1]
    /\ UNCHANGED <<environ, rate_limit, providers, boot, genai_api_key, issued>>

\* time.sleep returns once the whole delay has passed; send_request is called
sleep_return(r) ==
    /\ req[r].pc = "sleep"
    /\ req[r].slept >= rate_limit
    /\ req' = [req EXCEPT ![r].pc = "get_api_key"]
    /\ UNCHANGED <<environ, rate_limit, providers, boot, genai_api_key, issued>>

-----------------------------------------------------------------------------
(* LLMProviderBase.get_api_key; nothing makes its three steps atomic *)

\* a cursor that never moves
NextIndexStuck(key_index, n) == key_index

\* a cursor advanced without the modulo
NextIndexUnbounded(key_index, n) == key_index + 1

\* (self.key_index + 1) % len(self.api_keys)
NextIndex(key_index, n) == (key_index + 1) % n

\* key = self.api_keys[self.key_index]; an index out of range raises
\* IndexError, outside any try block
read_key(r) ==
    /\ req[r].pc = "get_api_key"
    /\ LET h == providers[req[r].provider]
       IN  IF h.key_index < Len(h.api_keys)
           THEN /\ req' = [req EXCEPT ![r].pc = "load_index",
                                      ![r].api_key = h.api_keys[h.key_index + 1]]
                /\ issued' = [issued EXCEPT ![req[r].provider] =
                                 Append(@, h.key_index)]
           ELSE /\ req' = [req EXCEPT ![r].pc = "raised"]
                /\ UNCHANGED issued
    /\ UNCHANGED <<environ, rate_limit, providers, boot, genai_api_key>>

\* the right-hand side of the assignment is evaluated
load_index(r) ==
    /\ req[r].pc = "load_index"
    /\ LET h == providers[req[r].provider]
       IN  req' = [req EXCEPT ![r].pc = "store_index",
                              ![r].tmp = NextIndex(h.key_index, Len(h.api_keys))]
    /\ UNCHANGED <<environ, rate_limit, providers, boot, genai_api_key, issued>>

\* self.key_index is assigned; get_api_key returns the key
store_index(r) ==
    /\ req[r].pc = "store_index"
    /\ providers' = [providers EXCEPT ![req[r].provider].key_index = req[r].tmp]
    /\ req' = [req EXCEPT ![r].pc = "send_request", ![r].advances = @ + 1]
    /\ UNCHANGED <<environ, rate_limit, boot, genai_api_key, issued>>

-----------------------------------------------------------------------------
(* send_request of the five handlers *)

HttpClasses ==
    {"MistralProvider", "AIStudioProvider", "OpenRouterProvider", "HuggingFaceProvider"}

\* what requests.post, raise_for_status and response.json() can do
HttpOutcomes == {"ok", "ConnectionError", "HTTPError", "JSONDecodeError"}

\* what chat.send_message and response.text can do
GeminiOutcomes == {"ok", "GoogleAPIError", "ValueError"}

\* the message returned when get_api_key gave nothing usable
NoKeyError(type) ==
    CASE type = "MistralProvider" -> [error |-> <<"No Mistral API key available">>]
      [] type = "AIStudioProvider" -> [error |-> <<"No AI Studio API key available">>]
      [] type = "OpenRouterProvider" -> [error |-> <<"No OpenRouter API key available">>]
      [] type = "HuggingFaceProvider" -> [error |-> <<"No Hugging Face API key available">>]
      [] type = "GeminiProvider" -> [error |-> <<"No Gemini API key available">>]

\* an except clause that lets the faults of a malformed body through
CatchesConnectionFaultsOnly(fault) == fault \in {"ConnectionError", "HTTPError"}

\* except Exception: every fault of the try block is caught
Catches(fault) == TRUE

\* the result a handler returns for an outcome of its try block
HandlerResult(provider_name, outcome) ==
    IF outcome = "ok"
    THEN [provider |-> provider_name, response |-> [text |-> "hello"]]
    ELSE [error |-> <<outcome>>]

\* the request's state once the try block ended with outcome
AfterTry(rq, provider_name, outcome) ==
    IF outcome = "ok" \/ Catches(outcome)
    THEN [rq EXCEPT !.pc = "return", !.result = HandlerResult(provider_name, outcome)]
    ELSE [rq EXCEPT !.pc = "raised"]

\* a handler that posts again when the first call failed
postRetrying(r) ==
    /\ req[r].pc = "send_request"
    /\ providers[req[r].provider].type \in HttpClasses
    /\ LET h == providers[req[r].provider]
           key == req[r].api_key
       IN  IF Falsy(key)
           THEN req' = [req EXCEPT ![r].pc = "return", ![r].result = NoKeyError(h.type)]
           ELSE \E first, second \in HttpOutcomes :
                    req' = [req EXCEPT ![r] =
                        IF first = "ok"
                        THEN AfterTry([@ EXCEPT !.wire = Append(@, key)],
                                      h.provider_name, first)
                        ELSE AfterTry([@ EXCEPT !.wire = @ \o <<key, key>>],
                                      h.provider_name, second)]
    /\ UNCHANGED <<environ, rate_limit, providers, boot, genai_api_key, issued>>

\* the four requests.post handlers after get_api_key: the key check, the one
\* call carrying the local api_key, and the conversion of its outcome
post(r) ==
    /\ req[r].pc = "send_request"
    /\ providers[req[r].provider].type \in HttpClasses
    /\ LET h == providers[req[r].provider]
           key == req[r].api_key
       IN  IF Falsy(key)
           THEN req' = [req EXCEPT ![r].pc = "return", ![r].result = NoKeyError(h.type)]
           ELSE \E outcome \in HttpOutcomes :
                    req' = [req EXCEPT ![r] =
                        AfterTry([@ EXCEPT !.wire = Append(@, key)],
                                 h.provider_name, outcome)]
    /\ UNCHANGED <<environ, rate_limit, providers, boot, genai_api_key, issued>>

\* GeminiProvider after get_api_key: the key check, genai.configure, and the
\* model and chat objects, any of which may raise inside the try block
configure(r) ==
    /\ req[r].pc = "send_request"
    /\ providers[req[r].provider].type = "GeminiProvider"
    /\ LET h == providers[req[r].provider]
           key == req[r].api_key
       IN  IF Falsy(key)
           THEN /\ req' = [req EXCEPT ![r].pc = "return",
                                      ![r].result = NoKeyError(h.type)]
                /\ UNCHANGED genai_api_key
           ELSE /\ genai_api_key' = key
                /\ \E outcome \in {"ok", "TypeError"} :
                       req' = [req EXCEPT ![r] =
                           IF outcome = "ok"
                           THEN [@ EXCEPT !.pc = "send_message"]
                           ELSE AfterTry(@, h.provider_name, outcome)]
    /\ UNCHANGED <<environ, rate_limit, providers, boot, issued>>

\* chat.send_message: the SDK authenticates the call with the key its global
\* configuration holds when the call is made
send_message(r) ==
    /\ req[r].pc = "send_message"
    /\ \E outcome \in GeminiOutcomes :
           req' = [req EXCEPT ![r] =
               AfterTry([@ EXCEPT !.wire = Append(@, genai_api_key)],
                        providers[req[r].provider].provider_name, outcome)]
    /\ UNCHANGED <<environ, rate_limit, providers, boot, genai_api_key, issued>>

-----------------------------------------------------------------------------
(* Specifications *)

\* requests are served one after the other
Sequential(r) == \A q \in Requests : q < r => req[q].pc = "closed"

Init == InitWith(DeployEnvs)

Next ==
    \/ load_provider_keys
    \/ \E r \in Requests :
        \/ \E data \in Bodies : Sequential(r) /\ generate(r, data)
        \/ \E provider \in ProviderNames : Sequential(r) /\ library_call(r, provider)
        \/ request(r)
        \/ sleep_tick(r)
        \/ sleep_return(r)
        \/ read_key(r)
        \/ load_index(r)
        \/ store_index(r)
        \/ post(r)
        \/ configure(r)
        \/ send_message(r)
        \/ generate_return(r)
        \/ library_return(r)
        \/ respond(r)

\* the reference's model: one request in, one request out
Spec == Init /\ [][Next]_vars

NextConc ==
    \/ load_provider_keys
    \/ \E r \in 1..MaxThreads :
        \/ \E data \in FullBodies : generate(r, data)
        \/ request(r)
        \/ sleep_tick(r)
        \/ sleep_return(r)
        \/ read_key(r)
        \/ load_index(r)
        \/ store_index(r)
        \/ post(r)
        \/ configure(r)
        \/ send_message(r)
        \/ generate_return(r)
        \/ respond(r)

\* simultaneous HTTP requests to /generate, each on a thread of its own
SpecConc == Init /\ [][NextConc]_vars

InitLoad == InitWith(LoadEnvs)

NextLoad == load_provider_keys

\* LLMManager.__init__ over every bounded environment
SpecLoad == InitLoad /\ [][NextLoad]_vars

-----------------------------------------------------------------------------
(* Properties *)

PrefixOf(v) == LoadOrder[CHOOSE i \in 1..Len(LoadOrder) : LoadOrder[i][1] = v][2]

Configured == {v \in DOMAIN providers : providers[v] # None}

NumKeys(v) == Len(providers[v].api_keys)

\* request r reached the dispatcher and the dispatcher has returned
Dispatched(r) == req[r].pc \in {"return", "done"} /\ req[r].status # 400

\* request r is inside get_api_key of vendor v, between its read and its write
Fetching(r, v) == req[r].provider = v /\ req[r].pc \in {"load_index", "store_index"}

\* request r is inside the handler
InHandler(r) ==
    req[r].pc \in {"get_api_key", "load_index", "store_index",
                   "send_request", "send_message"}

\* C1: under sequential dispatch the k-th credential fetch of a vendor with N
\* keys reads list position (k-1) mod N, and the key handed to the request is
\* the one at that position, whatever happened to earlier calls and whatever
\* was asked of other or unknown vendors in between.
C1_RoundRobin ==
    /\ \A v \in Configured :
           \A k \in 1..Len(issued[v]) : issued[v][k] = (k - 1) % NumKeys(v)
    /\ \A r \in Requests :
           req[r].pc \in {"load_index", "store_index", "send_request"} =>
               LET v == req[r].provider
               IN  req[r].api_key =
                       providers[v].api_keys[((Len(issued[v]) - 1) % NumKeys(v)) + 1]

\* the (N+1)-th fetch of a vendor with N = 2 keys has reused the first key
C1_Witness ==
    \E v \in Configured :
        /\ NumKeys(v) = 2
        /\ Len(issued[v]) = 3
        /\ issued[v][3] = 0
        /\ \E r \in Requests : req[r].provider = v /\ req[r].pc = "send_request"

\* C2: a dispatcher call for a vendor that is not in the registry, or whose
\* entry is None, returns an error naming the vendor; nothing was slept, no
\* outbound call was made, no key was fetched and no cursor moved.
C2_UnconfiguredVendor ==
    \A r \in Requests :
        (Dispatched(r) /\ NotConfigured(req[r].provider)) =>
            /\ IsError(req[r].result)
            /\ \E i \in DOMAIN req[r].result.error :
                   req[r].result.error[i] = req[r].provider
            /\ req[r].slept = 0
            /\ req[r].wire = <<>>
            /\ req[r].advances = 0
            /\ req[r].api_key = NoKey
            /\ \A v \in Configured :
                   providers[v].key_index = Len(issued[v]) % NumKeys(v)

\* with a rate limit configured, a vendor whose registry entry is None was
\* answered after an earlier request had moved a cursor
C2_Witness ==
    /\ rate_limit > 0
    /\ \E v \in Configured : issued[v] # <<>>
    /\ \E r \in Requests :
           /\ req[r].pc = "done"
           /\ req[r].provider \in DOMAIN providers
           /\ providers[req[r].provider] = None
           /\ IsError(req[r].result)

\* C3: no fault leaves send_request or LLMManager.request: a request is never
\* in the raised position, a request inside a handler can always take its next
\* step, and what the dispatcher returns is a success result of that vendor or
\* an error result with a text.
C3_NoFaultEscapes ==
    \A r \in Requests :
        /\ req[r].pc # "raised"
        /\ req[r].pc \in {"send_request", "send_message"} =>
               ENABLED (post(r) \/ configure(r) \/ send_message(r))
        /\ Dispatched(r) =>
               \/ IsSuccess(req[r].result) /\ req[r].result.provider = req[r].provider
               \/ IsError(req[r].result) /\ req[r].result.error # <<>>

\* a malformed response body came back as an error result
C3_Witness ==
    \E r \in Requests :
        /\ req[r].pc = "return"
        /\ req[r].wire # <<>>
        /\ req[r].result = [error |-> <<"JSONDecodeError">>]

\* the result of a fault raised in the try block before the message is sent
PreCallFault == [error |-> <<"TypeError">>]

\* C4 as claimed: every dispatcher request to a configured vendor makes
\* exactly one outbound call and advances the cursor exactly once.
C4_Original ==
    \A r \in Requests :
        (Dispatched(r) /\ ~NotConfigured(req[r].provider)) =>
            Len(req[r].wire) = 1 /\ req[r].advances = 1

\* C4 as amended: never more than one outbound call and one cursor advance per
\* request; a returned request to a configured vendor advanced the cursor
\* once, and made one call exactly when the key it was issued is not the empty
\* string and nothing raised before the message was sent.
C4_OneCallNoRetry ==
    \A r \in Requests :
        /\ Len(req[r].wire) <= 1
        /\ req[r].advances <= 1
        /\ (Dispatched(r) /\ ~NotConfigured(req[r].provider)) =>
               /\ req[r].advances = 1
               /\ Len(req[r].wire) = 1 <=>
                      (req[r].api_key # "" /\ req[r].result # PreCallFault)

\* a failed outbound call was returned after one call and one advance
C4_Witness ==
    \E r \in Requests :
        /\ Dispatched(r)
        /\ req[r].result = [error |-> <<"HTTPError">>]
        /\ Len(req[r].wire) = 1
        /\ req[r].advances = 1

\* C5 as claimed: /generate answers 400 exactly when a field is missing or
\* empty or the provider is none of the registry's vendors, and 200 otherwise.
C5_Original ==
    \A r \in Requests :
        (req[r].via = "http" /\ req[r].pc = "done") =>
            LET d == req[r].data
                bad == \/ Get(d, "prompt") = ""
                       \/ Get(d, "provider") = ""
                       \/ Get(d, "model") = ""
                       \/ Get(d, "provider") \notin Vendors
            IN  /\ req[r].status = 400 <=> bad
                /\ ~bad => req[r].status = 200

\* the length of the unbroken run prefix1, prefix2, ... in an environment
NumberedRun(env, env_prefix) ==
    CHOOSE k \in 0..Cardinality(DOMAIN env) :
        /\ \A i \in 1..k : EnvVar(env_prefix, i) \in DOMAIN env
        /\ EnvVar(env_prefix, k + 1) \notin DOMAIN env

ExpectedKeys(env, env_prefix) ==
    LET k == NumberedRun(env, env_prefix)
    IN  IF k > 0 THEN [i \in 1..k |-> env[EnvVar(env_prefix, i)]]
        ELSE IF env_prefix \in DOMAIN env THEN <<env[env_prefix]>>
        ELSE <<>>

\* C6: a loaded vendor holds the values of prefix1..prefixk, k the length of
\* the unbroken numbered run; the bare prefix is used only when k = 0; a
\* vendor left without keys is recorded as None.
C6_Discovery ==
    \A i \in 1..Len(LoadOrder) :
        LET v == LoadOrder[i][1]
            keys == ExpectedKeys(environ, LoadOrder[i][2])
        IN  v \in DOMAIN providers =>
                IF keys = <<>>
                THEN providers[v] = None
                ELSE /\ providers[v] # None
                     /\ providers[v].api_keys = keys
                     /\ providers[v].key_index = 0

\* X1, X2, X4 set and X3 not: the vendor was loaded with two keys
C6_Witness ==
    \E i \in 1..Len(LoadOrder) :
        LET v == LoadOrder[i][1]
            p == LoadOrder[i][2]
        IN  /\ {EnvVar(p, 1), EnvVar(p, 2), EnvVar(p, 4)} \subseteq DOMAIN environ
            /\ EnvVar(p, 3) \notin DOMAIN environ
            /\ v \in DOMAIN providers
            /\ providers[v] # None
            /\ Len(providers[v].api_keys) = 2

\* C7 as claimed: once N fetches of a vendor with N keys have completed, also
\* concurrently, the N keys read are pairwise distinct and the cursor is back
\* at its starting value.
C7_Original ==
    \A v \in Configured :
        ((\A r \in Requests : ~Fetching(r, v)) /\ Len(issued[v]) = NumKeys(v)) =>
            /\ \A i, j \in 1..Len(issued[v]) : i # j => issued[v][i] # issued[v][j]
            /\ providers[v].key_index = 0

\* C8: every constructed handler's cursor is within its key list, and the
\* registry and the key lists are what _load_provider_keys built from the
\* environment, in every state, those between the steps of concurrent calls
\* included.
C8_CursorInRange ==
    /\ boot = <<>> => DOMAIN providers = Vendors
    /\ \A v \in DOMAIN providers :
           IF providers[v] = None
           THEN RegistryEntry(environ, v, PrefixOf(v)) = None
           ELSE /\ providers[v].key_index \in 0..(NumKeys(v) - 1)
                /\ [providers[v] EXCEPT !.key_index = 0] =
                       RegistryEntry(environ, v, PrefixOf(v))

\* one request has written the cursor of a vendor while another is still
\* between its read and its write of the same cursor
C8_Witness ==
    \E v \in Configured :
        /\ providers[v].key_index = 1
        /\ \E r, q \in Requests :
               /\ r # q
               /\ Fetching(r, v)
               /\ req[q].provider = v
               /\ req[q].pc = "send_request"

C10_Original ==
    \A r \in Requests :
        \A i \in 1..Len(req[r].wire) : req[r].wire[i] = req[r].api_key

=============================================================================
